---- MODULE Spec2Model ----
(***************************************************************************)
(* connectz-rust: the grid / win-detection engine (src/src/grid.rs) and    *)
(* the move-replay driver (src/src/game.rs).                               *)
(*                                                                         *)
(* Spec      one Game::new followed by one Game::play over a move list.    *)
(* GridSpec  a Grid driven directly through Grid::insert_piece, as the     *)
(*           unit tests of grid.rs do.                                     *)
(* StreakSpec  a Grid built by insert_piece and asked one get_streak.      *)
(* FairSpec  Spec over shorter move lists, with the fairness of a          *)
(*           sequential loop.                                              *)
(* LocSpec   Location + Direction and Location - Direction called          *)
(*           directly, as the unit tests of grid.rs do.                    *)
(***************************************************************************)
EXTENDS Integers, Sequences, FiniteSets, TLC

\* ------------------------------------------------------------------ bounds
MaxWidth == 3
MaxHeight == 2
MaxWin == 3
MaxMoves == 4
MaxReplay == 3

\* The largest value of a coordinate word. Location holds u32 and `as u32`
\* truncates modulo 2^32; TLC's integers stop at 2^31 - 1, so the word is
\* modelled narrower, and still wider than any board of the model.
WordMax == 15
U32 == WordMax + 1

VARIABLES
    pc,          \* "new" | "play" | "done" | "shown" (Spec),
                 \* "grid" | "streak" (GridSpec, StreakSpec)
                 \* "loc" | "stepped" (LocSpec)
    args,        \* the (width, height, win_length) handed to the constructor
    moves,       \* the &Vec<u32> handed to Game::play
    win_length,  \* Game.win_length
    grid,        \* Game.grid : [values, max_height]
    moves_made,  \* Game.moves_made : HashMap<Player, u32>
    last_move,   \* Game.last_move : Option<Location>
    player,      \* play's `player`
    idx,         \* play's `idx`; at return, the index of the ply that returned
    result,      \* play's `result`, the Option<Outcome> of the last make_move
    outcome,     \* what Game::new rejected with, or what Game::play returned
    call,        \* the arguments of the last call made on the Grid directly
    ret,         \* what that call returned
    printed      \* the text `println!("{}", outcome)` wrote

vars == <<pc, args, moves, win_length, grid, moves_made, last_move, player,
          idx, result, outcome, call, ret, printed>>

\* ------------------------------------------------------------ value types
\* enum Outcome
Draw == [kind |-> "Draw"]
PlayerWin(p) == [kind |-> "PlayerWin", player |-> p]
Incomplete == [kind |-> "Incomplete"]
IllegalContinue == [kind |-> "IllegalContinue"]
IllegalRow == [kind |-> "IllegalRow"]
IllegalColumn == [kind |-> "IllegalColumn"]
IllegalGame == [kind |-> "IllegalGame"]

\* Option<T>; None is also the value of a variable nothing was stored in yet.
None == [kind |-> "None"]
Some(v) == [kind |-> "Some", val |-> v]

\* Result<T, E>
Ok(v) == [ok |-> TRUE, val |-> v]
Err(e) == [ok |-> FALSE, err |-> e]

\* struct Direction(i8, i8) and the four axes
HORIZONTAL == <<1, 0>>
VERTICAL == <<0, 1>>
FORWARD_DIAGONAL == <<1, 1>>
BACKWARD_DIAGONAL == <<-1, 1>>
ALL_DIRECTIONS == <<HORIZONTAL, VERTICAL, FORWARD_DIAGONAL, BACKWARD_DIAGONAL>>

\* struct Location(u32, u32): <<column, row>>
Location(c, r) == <<c, r>>

\* -------------------------------------------------------- Location + / -
LocationAdd(self, rhs) ==
    IF self[1] = 0 /\ rhs[1] < 0 THEN Err("already at first column")
    ELSE IF self[2] = 0 /\ rhs[2] < 0 THEN Err("already at first row")
    ELSE Ok(Location((self[1] + rhs[1]) % U32, (self[2] + rhs[2]) % U32))

LocationSub(self, rhs) ==
    IF self[1] = 0 /\ rhs[1] > 0 THEN Err("already at first column")
    ELSE IF self[2] = 0 /\ rhs[2] > 0 THEN Err("already at first row")
    ELSE Ok(Location((self[1] - rhs[1]) % U32, (self[2] - rhs[2]) % U32))

\* ------------------------------------------------------------------ Grid
\* values[c + 1] is column c, bottom first.
with_dimensions(width, height) ==
    [values |-> [c \in 1..width |-> << >>], max_height |-> height]

\* Vec::get twice: None past the last column or above the top of the column.
at(g, loc) ==
    IF loc[1] < Len(g.values)
    THEN IF loc[2] < Len(g.values[loc[1] + 1])
         THEN Some(g.values[loc[1] + 1][loc[2] + 1])
         ELSE None
    ELSE None

\* Mutant of is_full: `>` for `==`, so no column ever counts as full.
is_full_gt(g) == \A c \in 1..Len(g.values) : Len(g.values[c]) > g.max_height

is_full(g) == \A c \in 1..Len(g.values) : Len(g.values[c]) = g.max_height

\* Mutant of insert_piece: `>` for `>=` in the fullness check.
insert_piece_gt(g, p, column) ==
    IF ~(column < Len(g.values))
    THEN [grid |-> g, res |-> Err(IllegalColumn)]
    ELSE LET length == Len(g.values[column + 1]) IN
         IF length > g.max_height
         THEN [grid |-> g, res |-> Err(IllegalRow)]
         ELSE [grid |-> [g EXCEPT !.values[column + 1] = Append(@, p)],
               res |-> Ok(Location(column, length))]

\* Mutant of insert_piece: the row is read after the push.
insert_piece_after(g, p, column) ==
    IF ~(column < Len(g.values))
    THEN [grid |-> g, res |-> Err(IllegalColumn)]
    ELSE LET length == Len(g.values[column + 1]) IN
         IF length >= g.max_height
         THEN [grid |-> g, res |-> Err(IllegalRow)]
         ELSE [grid |-> [g EXCEPT !.values[column + 1] = Append(@, p)],
               res |-> Ok(Location(column, length + 1))]

\* Returns the grid after the call beside the Result.
insert_piece(g, p, column) ==
    IF ~(column < Len(g.values))
    THEN [grid |-> g, res |-> Err(IllegalColumn)]
    ELSE LET length == Len(g.values[column + 1]) IN
         IF length >= g.max_height
         THEN [grid |-> g, res |-> Err(IllegalRow)]
         ELSE [grid |-> [g EXCEPT !.values[column + 1] = Append(@, p)],
               res |-> Ok(Location(column, length))]

\* Mutant of walk: the owner of the cell is not compared.
RECURSIVE walk_any(_, _, _, _, _)
walk_any(g, p, position, direction, forward) ==
    LET step == IF forward THEN LocationAdd(position, direction)
                           ELSE LocationSub(position, direction)
    IN IF ~step.ok THEN 0
       ELSE IF at(g, step.val) # None
            THEN 1 + walk_any(g, p, step.val, direction, forward)
            ELSE 0

\* One `while let` loop of get_streak: the cells counted from `position`
\* (exclusive) onwards, stepping with + (forward) or - (not forward).
RECURSIVE walk(_, _, _, _, _)
walk(g, p, position, direction, forward) ==
    LET step == IF forward THEN LocationAdd(position, direction)
                           ELSE LocationSub(position, direction)
    IN IF ~step.ok THEN 0
       ELSE IF at(g, step.val) = Some(p)
            THEN 1 + walk(g, p, step.val, direction, forward)
            ELSE 0

\* Mutant of get_streak: the second loop, against the direction, is missing.
get_streak_forward(g, start, direction) ==
    IF at(g, start) = None THEN 0
    ELSE 1 + walk(g, at(g, start).val, start, direction, TRUE)

\* Mutant of get_streak: each loop counts the start cell again.
get_streak_inclusive(g, start, direction) ==
    IF at(g, start) = None THEN 0
    ELSE 1 + (1 + walk(g, at(g, start).val, start, direction, TRUE))
           + (1 + walk(g, at(g, start).val, start, direction, FALSE))

get_streak(g, start, direction) ==
    IF at(g, start) = None THEN 0
    ELSE 1 + walk(g, at(g, start).val, start, direction, TRUE)
           + walk(g, at(g, start).val, start, direction, FALSE)

\* ------------------------------------------------------------------ Game
\* Mutant of Game_new: `||` for `&&`.
Game_new_or(width, height, wl) ==
    IF wl > width \/ wl > height
    THEN Err(IllegalGame)
    ELSE Ok([win_length |-> wl,
             grid |-> with_dimensions(width, height),
             moves_made |-> << >>,
             last_move |-> None])

\* The fields a constructed Game holds.
Game_new(width, height, wl) ==
    IF wl > width /\ wl > height
    THEN Err(IllegalGame)
    ELSE Ok([win_length |-> wl,
             grid |-> with_dimensions(width, height),
             moves_made |-> << >>,
             last_move |-> None])

\* Mutant of could_win: `>` for `>=`.
could_win_gt(made, wl, p) ==
    IF p \in DOMAIN made THEN made[p] > wl ELSE FALSE

could_win(made, wl, p) ==
    IF p \in DOMAIN made THEN made[p] >= wl ELSE FALSE

\* entry(player).and_modify(+1).or_insert(1)
count_move(made, p) ==
    IF p \in DOMAIN made THEN [made EXCEPT ![p] = @ + 1] ELSE made @@ (p :> 1)

\* Mutant of classify: the last direction, the backward diagonal, is left out.
classify_three(game, p) ==
    IF could_win(game.moves_made, game.win_length, p)
       /\ \E d \in 1..(Len(ALL_DIRECTIONS) - 1) :
             get_streak(game.grid, game.last_move.val, ALL_DIRECTIONS[d])
                 >= game.win_length
    THEN Some(PlayerWin(p))
    ELSE IF is_full(game.grid) THEN Some(Draw) ELSE None

\* Mutant of classify: the draw check comes first.
classify_draw_first(game, p) ==
    IF is_full(game.grid) THEN Some(Draw)
    ELSE IF could_win(game.moves_made, game.win_length, p)
            /\ \E d \in 1..Len(ALL_DIRECTIONS) :
                  get_streak(game.grid, game.last_move.val, ALL_DIRECTIONS[d])
                      >= game.win_length
    THEN Some(PlayerWin(p))
    ELSE None

\* Mutant of classify: `>` for `>=` in the comparison with win_length.
classify_gt(game, p) ==
    IF could_win(game.moves_made, game.win_length, p)
       /\ \E d \in 1..Len(ALL_DIRECTIONS) :
             get_streak(game.grid, game.last_move.val, ALL_DIRECTIONS[d])
                 > game.win_length
    THEN Some(PlayerWin(p))
    ELSE IF is_full(game.grid) THEN Some(Draw) ELSE None

\* The second half of make_move: the win check, then the draw check.
classify(game, p) ==
    IF could_win(game.moves_made, game.win_length, p)
       /\ \E d \in 1..Len(ALL_DIRECTIONS) :
             get_streak(game.grid, game.last_move.val, ALL_DIRECTIONS[d])
                 >= game.win_length
    THEN Some(PlayerWin(p))
    ELSE IF is_full(game.grid) THEN Some(Draw) ELSE None

\* Mutant of make_move: the move is counted before the drop is known to
\* have succeeded.
make_move_count_first(game, p, column) ==
    LET ins == insert_piece(game.grid, p, column)
        counted == [game EXCEPT !.moves_made = count_move(@, p)]
    IN IF ~ins.res.ok
       THEN [game |-> counted, result |-> Some(ins.res.err)]
       ELSE LET g2 == [counted EXCEPT !.grid = ins.grid,
                                      !.last_move = Some(ins.res.val)]
            IN [game |-> g2, result |-> classify(g2, p)]

\* Mutant of make_move: a failed drop is not reported.
make_move_skip(game, p, column) ==
    LET ins == insert_piece(game.grid, p, column) IN
    IF ~ins.res.ok
    THEN [game |-> game, result |-> None]
    ELSE LET g2 == [game EXCEPT !.grid = ins.grid,
                                !.last_move = Some(ins.res.val),
                                !.moves_made = count_move(@, p)]
         IN [game |-> g2, result |-> classify(g2, p)]

\* The game after the call beside the Option<Outcome> it returns.
make_move(game, p, column) ==
    LET ins == insert_piece(game.grid, p, column) IN
    IF ~ins.res.ok
    THEN [game |-> game, result |-> Some(ins.res.err)]
    ELSE LET g2 == [game EXCEPT !.grid = ins.grid,
                                !.last_move = Some(ins.res.val),
                                !.moves_made = count_move(@, p)]
         IN [game |-> g2, result |-> classify(g2, p)]

\* Mutant of play_return_win: the moves after the winning one are not looked at.
play_return_win_last(won, len, i) == won

\* What play returns for a ply `i` of `len` that make_move reported won.
play_return_win(won, len, i) ==
    IF len > i + 1 THEN IllegalContinue ELSE won

\* Mutant of next_player: the arm `2 => 1` is missing.
next_player_stuck(p) == IF p = 1 THEN 2 ELSE p

\* Mutant of fmt: IllegalRow and IllegalColumn share the code 5.
fmt_shared(o) ==
    CASE o = Draw -> "0"
      [] o.kind = "PlayerWin" -> ToString(o.player)
      [] o = Incomplete -> "3"
      [] o = IllegalContinue -> "4"
      [] o = IllegalRow -> "5"
      [] o = IllegalColumn -> "5"
      [] o = IllegalGame -> "7"

\* impl fmt::Display for Outcome
fmt(o) ==
    CASE o = Draw -> "0"
      [] o.kind = "PlayerWin" -> ToString(o.player)
      [] o = Incomplete -> "3"
      [] o = IllegalContinue -> "4"
      [] o = IllegalRow -> "5"
      [] o = IllegalColumn -> "6"
      [] o = IllegalGame -> "7"

\* `match player { 1 => 2, 2 => 1, _ => () }`
next_player(p) == IF p = 1 THEN 2 ELSE IF p = 2 THEN 1 ELSE p

\* Game::play as a function of the game and the move list: the `for` loop from
\* ply i on, with `player` to move.
RECURSIVE play_loop(_, _, _, _)
play_loop(game, mv, i, p) ==
    IF i >= Len(mv) THEN Incomplete
    ELSE LET mm == make_move(game, p, mv[i + 1]) IN
         IF mm.result # None /\ mm.result.val.kind = "PlayerWin"
         THEN play_return_win(mm.result.val, Len(mv), i)
         ELSE IF mm.result # None
         THEN mm.result.val
         ELSE play_loop(mm.game, mv, i + 1, next_player(p))

play(game, mv) == play_loop(game, mv, 0, 1)

\* ------------------------------------------------------------ state: Spec
Columns == 0..MaxWidth

RECURSIVE SeqsUpTo(_, _)
SeqsUpTo(S, n) ==
    IF n = 0 THEN {<< >>}
    ELSE LET shorter == SeqsUpTo(S, n - 1)
         IN shorter \cup {Append(s, x) : s \in {t \in shorter : Len(t) = n - 1}, x \in S}

NoGrid == [values |-> << >>, max_height |-> 0]

Init ==
    /\ pc = "new"
    /\ args \in [width : 0..MaxWidth, height : 0..MaxHeight, win_length : 0..MaxWin]
    /\ moves \in SeqsUpTo(Columns, MaxMoves)
    /\ win_length = 0
    /\ grid = NoGrid
    /\ moves_made = << >>
    /\ last_move = None
    /\ player = 1
    /\ idx = 0
    /\ result = None
    /\ outcome = None
    /\ call = None
    /\ ret = None
    /\ printed = ""

\* The Game as the record make_move works on.
TheGame ==
    [win_length |-> win_length, grid |-> grid, moves_made |-> moves_made,
     last_move |-> last_move]

\* Game::new(width, height, win_length); on Ok, play starts with player = 1.
GameNew ==
    /\ pc = "new"
    /\ LET r == Game_new(args.width, args.height, args.win_length) IN
       IF r.ok
       THEN /\ win_length' = r.val.win_length
            /\ grid' = r.val.grid
            /\ moves_made' = r.val.moves_made
            /\ last_move' = r.val.last_move
            /\ player' = 1
            /\ pc' = "play"
            /\ outcome' = None
       ELSE /\ outcome' = r.err
            /\ pc' = "done"
            /\ UNCHANGED <<win_length, grid, moves_made, last_move, player>>
    /\ UNCHANGED <<args, moves, idx, result, call, ret>>
    /\ UNCHANGED printed

\* One iteration of the `for` loop of Game::play.
PlayStep ==
    /\ pc = "play"
    /\ idx < Len(moves)
    /\ LET mm == make_move(TheGame, player, moves[idx + 1]) IN
       /\ win_length' = mm.game.win_length
       /\ grid' = mm.game.grid
       /\ moves_made' = mm.game.moves_made
       /\ last_move' = mm.game.last_move
       /\ result' = mm.result
       /\ IF mm.result # None /\ mm.result.val.kind = "PlayerWin"
          THEN /\ outcome' = play_return_win(mm.result.val, Len(moves), idx)
               /\ pc' = "done"
               /\ UNCHANGED <<player, idx>>
          ELSE IF mm.result # None
          THEN /\ outcome' = mm.result.val
               /\ pc' = "done"
               /\ UNCHANGED <<player, idx>>
          ELSE /\ player' = next_player(player)
               /\ idx' = idx + 1
               /\ UNCHANGED <<pc, outcome>>
    /\ UNCHANGED <<args, moves, call, ret>>
    /\ UNCHANGED printed

\* The loop ran out of moves.
PlayExhausted ==
    /\ pc = "play"
    /\ idx = Len(moves)
    /\ outcome' = Incomplete
    /\ pc' = "done"
    /\ UNCHANGED <<args, moves, win_length, grid, moves_made, last_move,
                   player, idx, result, call, ret>>
    /\ UNCHANGED printed

\* The caller writes the outcome out: `println!("{}", outcome)`.
Show ==
    /\ pc = "done"
    /\ printed' = fmt(outcome)
    /\ pc' = "shown"
    /\ UNCHANGED <<args, moves, win_length, grid, moves_made, last_move,
                   player, idx, result, outcome, call, ret>>

Next == GameNew \/ PlayStep \/ PlayExhausted \/ Show

Spec == Init /\ [][Next]_vars

\* As Init, the move lists of at most MaxReplay moves naming the columns of
\* the board and the first column past it.
FairInit ==
    /\ pc = "new"
    /\ args \in [width : 0..MaxWidth, height : 0..MaxHeight, win_length : 0..MaxWin]
    /\ moves \in SeqsUpTo(0..args.width, MaxReplay)
    /\ win_length = 0
    /\ grid = NoGrid
    /\ moves_made = << >>
    /\ last_move = None
    /\ player = 1
    /\ idx = 0
    /\ result = None
    /\ outcome = None
    /\ call = None
    /\ ret = None
    /\ printed = ""

\* The replay is one sequential loop on one thread: a step that can be taken
\* is taken.
FairSpec == FairInit /\ [][Next]_vars /\ WF_vars(Next)

\* -------------------------------------------------------- state: GridSpec
Players == {1, 2}

GridInit ==
    /\ pc = "grid"
    /\ args \in [width : 0..MaxWidth, height : 0..MaxHeight, win_length : {0}]
    /\ moves = << >>
    /\ win_length = 0
    /\ grid = with_dimensions(args.width, args.height)
    /\ moves_made = << >>
    /\ last_move = None
    /\ player = 1
    /\ idx = 0
    /\ result = None
    /\ outcome = None
    /\ call = None
    /\ ret = None
    /\ printed = ""

\* grid.insert_piece(p, column)
GridInsert ==
    /\ pc = "grid"
    /\ \E p \in Players, column \in Columns :
          LET ins == insert_piece(grid, p, column) IN
          /\ call' = Some([player |-> p, column |-> column])
          /\ ret' = ins.res
          /\ grid' = ins.grid
    /\ UNCHANGED <<pc, args, moves, win_length, moves_made, last_move, player,
                   idx, result, outcome>>
    /\ UNCHANGED printed

GridNext == GridInsert

GridSpec == GridInit /\ [][GridNext]_vars

\* ------------------------------------------------------ state: StreakSpec
\* A board is built by insert_piece calls and then asked one get_streak.
\* The starts include the first column and the first row past every board.
Starts == (0..MaxWidth) \X (0..MaxHeight)

\* grid.insert_piece(p, column), the Result not looked at.
BoardInsert ==
    /\ pc = "grid"
    /\ \E p \in Players, column \in Columns :
          grid' = insert_piece(grid, p, column).grid
    /\ UNCHANGED <<pc, args, moves, win_length, moves_made, last_move, player,
                   idx, result, outcome, call, ret>>
    /\ UNCHANGED printed

\* grid.get_streak(start, direction)
StreakQuery ==
    /\ pc = "grid"
    /\ \E start \in Starts, d \in 1..Len(ALL_DIRECTIONS) :
          /\ call' = Some([start |-> start, direction |-> ALL_DIRECTIONS[d]])
          /\ ret' = get_streak(grid, start, ALL_DIRECTIONS[d])
    /\ pc' = "streak"
    /\ UNCHANGED <<args, moves, win_length, grid, moves_made, last_move, player,
                   idx, result, outcome>>
    /\ UNCHANGED printed

StreakNext == BoardInsert \/ StreakQuery

StreakSpec == GridInit /\ [][StreakNext]_vars

\* --------------------------------------------------------- state: LocSpec
\* One call on one Location, over every Location of the word and every
\* Direction with steps of -1, 0, 1.
Words == 0..WordMax
Steps == {-1, 0, 1}

LocInit ==
    /\ pc = "loc"
    /\ args = [width |-> 0, height |-> 0, win_length |-> 0]
    /\ moves = << >>
    /\ win_length = 0
    /\ grid = NoGrid
    /\ moves_made = << >>
    /\ last_move = None
    /\ player = 1
    /\ idx = 0
    /\ result = None
    /\ outcome = None
    /\ call = None
    /\ ret = None
    /\ printed = ""

\* location + direction
LocAdd ==
    /\ pc = "loc"
    /\ \E c \in Words, r \in Words, dc \in Steps, dr \in Steps :
          /\ call' = Some([op |-> "add", self |-> Location(c, r), rhs |-> <<dc, dr>>])
          /\ ret' = LocationAdd(Location(c, r), <<dc, dr>>)
    /\ pc' = "stepped"
    /\ UNCHANGED <<args, moves, win_length, grid, moves_made, last_move,
                   player, idx, result, outcome, printed>>

\* location - direction
LocSub ==
    /\ pc = "loc"
    /\ \E c \in Words, r \in Words, dc \in Steps, dr \in Steps :
          /\ call' = Some([op |-> "sub", self |-> Location(c, r), rhs |-> <<dc, dr>>])
          /\ ret' = LocationSub(Location(c, r), <<dc, dr>>)
    /\ pc' = "stepped"
    /\ UNCHANGED <<args, moves, win_length, grid, moves_made, last_move,
                   player, idx, result, outcome, printed>>

LocNext == LocAdd \/ LocSub

LocSpec == LocInit /\ [][LocNext]_vars

\* ================================================================ claims
\* The vocabulary of the claims, stated on the board and the move list and
\* not through get_streak, is_full or insert_piece.

Max(a, b) == IF a >= b THEN a ELSE b

\* The player of ply i (0-based): 1 on even plies, 2 on odd ones.
Mover(i) == IF i % 2 = 0 THEN 1 ELSE 2

RECURSIVE SumLen(_, _)
SumLen(cols, n) == IF n = 0 THEN 0 ELSE Len(cols[n]) + SumLen(cols, n - 1)

\* The number of pieces on the board.
Pieces == SumLen(grid.values, Len(grid.values))

Occupied(c, r) ==
    /\ c >= 0 /\ c < Len(grid.values)
    /\ r >= 0 /\ r < Len(grid.values[c + 1])

Owner(c, r) == grid.values[c + 1][r + 1]

BoardFull ==
    /\ Len(grid.values) = args.width
    /\ \A c \in 1..args.width : Len(grid.values[c]) = args.height

\* Cell (c, r) lies on a straight segment of z cells of its owner.
RunThrough(c, r, z) ==
    \/ z = 0
    \/ \E d \in {<<1, 0>>, <<0, 1>>, <<1, 1>>, <<-1, 1>>} :
          \E a \in 0..(z - 1) :
             \A j \in 0..(z - 1) :
                LET cc == c + (j - a) * d[1]
                    rr == r + (j - a) * d[2]
                IN Occupied(cc, rr) /\ Owner(cc, rr) = Owner(c, r)

\* Some player holds a straight segment of z cells anywhere on the board.
RunAnywhere(z) ==
    \E c \in 0..(Len(grid.values) - 1) :
       \E r \in 0..(Len(grid.values[c + 1]) - 1) : RunThrough(c, r, z)

\* How many of the plies 0..i-1 name column c.
DropsBefore(c, i) == Cardinality({j \in 1..i : moves[j] = c})

\* Ply i cannot be dropped, given that every ply before it was.
DropFails(i) ==
    \/ moves[i + 1] >= args.width
    \/ DropsBefore(moves[i + 1], i) >= args.height

\* play returned at a ply (and not because the list ran out).
AtPly == pc = "done" /\ outcome # IllegalGame /\ idx < Len(moves)

\* play returned at a ply whose piece went onto the board.
Dropped == AtPly /\ Pieces = idx + 1

\* Where that piece landed: the top of its column.
LandC == moves[idx + 1]
LandR == Len(grid.values[LandC + 1]) - 1

PositiveBoard == args.width > 0 /\ args.height > 0

\* C1: Game::new fails with IllegalGame exactly when win_length exceeds
\* max(width, height); otherwise it yields a game with an empty board of the
\* given dimensions, no move counters and no last move.
C1_NewRejectsExactly ==
    pc # "new" =>
      IF args.win_length > Max(args.width, args.height)
      THEN pc \in {"done", "shown"} /\ outcome = IllegalGame
      ELSE /\ outcome # IllegalGame
           /\ win_length = args.win_length
           /\ Len(grid.values) = args.width
           /\ grid.max_height = args.height
           /\ (pc = "play" /\ idx = 0 =>
                 /\ \A c \in 1..args.width : grid.values[c] = << >>
                 /\ DOMAIN moves_made = {}
                 /\ last_move = None)

C1_Witness ==
    pc = "done" /\ outcome = IllegalGame /\ args.width > 0 /\ args.height > 0

\* C2: a ply that completes a run of win_length with at least one more move
\* listed after it makes play return IllegalContinue; PlayerWin is returned
\* only for a winning ply that is the last of the list; and the replay never
\* goes on past a ply that completed a run.
C2_WinThenMoreIsIllegalContinue ==
    /\ (Dropped /\ RunThrough(LandC, LandR, win_length) /\ idx + 1 < Len(moves)
          => outcome = IllegalContinue)
    /\ (pc = "done" /\ outcome.kind = "PlayerWin"
          => /\ Dropped
             /\ RunThrough(LandC, LandR, win_length)
             /\ idx + 1 = Len(moves))
    /\ (pc = "play" /\ idx > 0 /\ Occupied(moves[idx], 0)
          => ~RunThrough(moves[idx], Len(grid.values[moves[idx] + 1]) - 1,
                         win_length))

C2_Witness ==
    /\ Dropped
    /\ RunThrough(LandC, LandR, win_length)
    /\ idx + 1 < Len(moves)
    /\ outcome = IllegalContinue
    /\ win_length >= 2

\* C3: on a board of positive width and height, the drop that fills the last
\* empty cell without completing a run makes play return Draw at that ply,
\* whatever moves follow; the replay never goes on, and never returns
\* Incomplete, with a full board.
C3_FullBoardIsDraw ==
    PositiveBoard =>
      /\ (Dropped /\ BoardFull /\ ~RunThrough(LandC, LandR, win_length)
            => outcome = Draw)
      /\ (pc = "play" => ~BoardFull)
      /\ (pc = "done" /\ outcome = Incomplete => ~BoardFull)

C3_Witness ==
    /\ PositiveBoard
    /\ Dropped /\ BoardFull /\ ~RunThrough(LandC, LandR, win_length)
    /\ outcome = Draw
    /\ idx + 1 < Len(moves)
    /\ moves[idx + 2] >= args.width

\* C4: a drop that both completes a run and fills the board is a win of the
\* mover: make_move returns PlayerWin(mover), and play returns PlayerWin if it
\* was the last move and IllegalContinue otherwise, never Draw.
C4_WinBeforeDraw ==
    Dropped /\ BoardFull /\ RunThrough(LandC, LandR, win_length) =>
      /\ result = Some(PlayerWin(Mover(idx)))
      /\ outcome = IF idx + 1 = Len(moves) THEN PlayerWin(Mover(idx))
                                           ELSE IllegalContinue

C4_Witness ==
    /\ Dropped /\ BoardFull /\ RunThrough(LandC, LandR, win_length)
    /\ PositiveBoard
    /\ win_length >= 2
    /\ outcome = PlayerWin(Mover(idx))

\* C5: the first ply whose drop fails ends the replay with exactly that
\* failure (IllegalColumn for a column >= width, else IllegalRow for a full
\* column); its piece and those of the later moves are not on the board, and
\* the replay never goes on past a failing ply.
C5_FailedDropHalts ==
    /\ (pc = "play" => Pieces = idx /\ \A i \in 0..(idx - 1) : ~DropFails(i))
    /\ (AtPly /\ DropFails(idx) =>
          /\ outcome = IF moves[idx + 1] >= args.width THEN IllegalColumn
                                                       ELSE IllegalRow
          /\ result = Some(outcome)
          /\ Pieces = idx)
    /\ (AtPly /\ outcome \in {IllegalColumn, IllegalRow} => DropFails(idx))

C5_Witness ==
    /\ AtPly /\ DropFails(idx)
    /\ outcome = IllegalRow
    /\ idx + 1 < Len(moves)
    /\ ~DropFails(idx + 1)

\* C6: on a board of positive width and height, play returns Incomplete if
\* and only if every listed move was dropped, no run of win_length exists
\* (so no ply completed one) and the board is not full.
C6_IncompleteIff ==
    pc = "done" /\ outcome # IllegalGame /\ PositiveBoard =>
      (outcome = Incomplete
         <=> Pieces = Len(moves) /\ ~RunAnywhere(win_length) /\ ~BoardFull)

C6_Witness ==
    /\ pc = "done" /\ PositiveBoard
    /\ outcome = Incomplete
    /\ Len(moves) >= 3
    /\ win_length = 2

\* C7 (GridSpec): in every board state insert_piece fails with IllegalColumn
\* for a column >= width, full board or not, and with IllegalRow for an
\* in-range column that already holds `height` pieces; the grid is left as
\* it was.
C7_InsertRejects ==
    [][LET column == call'.val.column IN
       /\ (column >= args.width
             => ret' = Err(IllegalColumn) /\ grid' = grid)
       /\ (column < args.width /\ Len(grid.values[column + 1]) >= args.height
             => ret' = Err(IllegalRow) /\ grid' = grid)]_vars

C7_Witness ==
    /\ pc = "grid" /\ PositiveBoard /\ BoardFull
    /\ call # None
    /\ call.val.column >= args.width
    /\ ret = Err(IllegalColumn)

\* C8: within one play the piece of ply i is dropped for player 1 when i is
\* even and for player 2 when i is odd: the r-th piece of column c belongs to
\* the mover of the ply that named c for the r-th time; so every occupied
\* cell is owned by 1 or 2, and a PlayerWin names the mover of its ply.
C8_PlayersAlternate ==
    /\ (pc = "play" => player = Mover(idx))
    /\ (pc \in {"play", "done"} =>
          \A c \in 0..(Len(grid.values) - 1) :
             \A r \in 0..(Len(grid.values[c + 1]) - 1) :
                /\ Owner(c, r) \in {1, 2}
                /\ \E i \in 0..(Len(moves) - 1) :
                      /\ moves[i + 1] = c
                      /\ DropsBefore(c, i) = r
                      /\ Owner(c, r) = Mover(i))
    /\ (pc = "done" /\ outcome.kind = "PlayerWin"
          => outcome.player = Mover(idx) /\ outcome.player \in {1, 2})

C8_Witness ==
    /\ pc = "done"
    /\ outcome = PlayerWin(2)
    /\ idx = 3
    /\ Pieces = 4

\* C9 (GridSpec): a successful insert_piece(player, c) on a column of height
\* h < height returns (c, h), puts player at (c, h), raises column c by that
\* one piece and changes no other column, nor max_height.
C9_InsertFrame ==
    [][ret'.ok =>
         LET c == call'.val.column
             h == Len(grid.values[c + 1])
         IN /\ c < args.width
            /\ h < args.height
            /\ ret'.val = <<c, h>>
            /\ grid'.values[c + 1] = Append(grid.values[c + 1], call'.val.player)
            /\ Len(grid'.values) = Len(grid.values)
            /\ \A o \in 1..Len(grid.values) :
                  o # c + 1 => grid'.values[o] = grid.values[o]
            /\ grid'.max_height = grid.max_height]_vars

C9_Witness ==
    /\ pc = "grid"
    /\ call # None
    /\ ret = Ok(<<1, 1>>)
    /\ Pieces >= 3
    /\ Owner(1, 1) = call.val.player
    /\ Owner(1, 0) # call.val.player

\* The game and the move list of the scenario of C10.
C10_Scenario ==
    /\ pc = "done"
    /\ args = [width |-> 2, height |-> 2, win_length |-> 2]
    /\ moves = <<0, 0, 1, 1>>

\* C10, as first stated: on a 2x2 board with run-length 2 the moves
\* [0,0,1,1] yield Draw.
C10_Original == C10_Scenario => outcome = Draw

\* C10, as amended: on a 2x2 board with run-length 2 the moves [0,0,1,1]
\* yield IllegalContinue: the third move completes the bottom row for
\* player 1 and one more move is listed after it.
C10_Amended ==
    C10_Scenario =>
      /\ outcome = IllegalContinue
      /\ idx = 2
      /\ result = Some(PlayerWin(1))
      /\ Pieces = 3

C10_Witness == C10_Scenario /\ Owner(0, 0) = 1 /\ Owner(1, 0) = 1

\* The cells past (c, r) in the sense s * d (s = 1 or -1) that are occupied
\* by `owner`, counted up to the first one that is not, or the board's edge.
RECURSIVE Reach(_, _, _, _, _)
Reach(c, r, d, s, owner) ==
    LET cc == c + s * d[1]
        rr == r + s * d[2]
    IN IF Occupied(cc, rr) /\ Owner(cc, rr) = owner
       THEN 1 + Reach(cc, rr, d, s, owner)
       ELSE 0

\* The length of the maximal segment of one owner through (c, r) along d.
Segment(c, r, d) ==
    IF ~Occupied(c, r) THEN 0
    ELSE 1 + Reach(c, r, d, 1, Owner(c, r)) + Reach(c, r, d, -1, Owner(c, r))

\* Cell (c, r) lies on a segment of z >= 1 cells of its owner along d.
RunAlong(c, r, d, z) ==
    \E a \in 0..(z - 1) :
       \A j \in 0..(z - 1) :
          LET cc == c + (j - a) * d[1]
              rr == r + (j - a) * d[2]
          IN Occupied(cc, rr) /\ Owner(cc, rr) = Owner(c, r)

\* C11 (StreakSpec): get_streak(start, d) is 0 for an empty or out-of-range
\* start, and otherwise the length of the maximal segment of cells of start's
\* owner through start along d and -d, ended by the board's edges, empty
\* cells and cells of the other owner.
C11_StreakIsSegment ==
    pc = "streak" =>
      /\ ret = Segment(call.val.start[1], call.val.start[2], call.val.direction)
      /\ (~Occupied(call.val.start[1], call.val.start[2]) => ret = 0)
      /\ (Occupied(call.val.start[1], call.val.start[2]) =>
            /\ ret >= 1
            /\ RunAlong(call.val.start[1], call.val.start[2],
                        call.val.direction, ret)
            /\ ~RunAlong(call.val.start[1], call.val.start[2],
                         call.val.direction, ret + 1))

C11_Witness ==
    /\ pc = "streak"
    /\ ret = 3
    /\ call.val.direction = HORIZONTAL
    /\ call.val.start = <<1, 1>>
    /\ Pieces = 6

\* The componentwise negation of a direction.
Neg(d) == <<-d[1], -d[2]>>

\* C12 (StreakSpec): for every board, start and axis d, get_streak(start, d)
\* equals get_streak(start, -d).
C12_StreakSymmetric ==
    pc = "streak" =>
      ret = get_streak(grid, call.val.start, Neg(call.val.direction))

C12_Witness ==
    /\ pc = "streak"
    /\ call.val.start = <<0, 1>>
    /\ call.val.direction = BACKWARD_DIAGONAL
    /\ ret = 2
    /\ get_streak(grid, call.val.start, Neg(call.val.direction)) = 2

\* The outcome a rendered code stands for, by the table of the codes.
Decode(code) ==
    CASE code = "0" -> Draw
      [] code = "1" -> PlayerWin(1)
      [] code = "2" -> PlayerWin(2)
      [] code = "3" -> Incomplete
      [] code = "4" -> IllegalContinue
      [] code = "5" -> IllegalRow
      [] code = "6" -> IllegalColumn
      [] code = "7" -> IllegalGame
      [] OTHER -> None

\* C13: an outcome renders as Draw=0, PlayerWin(p)=p, Incomplete=3,
\* IllegalContinue=4, IllegalRow=5, IllegalColumn=6, IllegalGame=7, and the
\* outcome that Game::new or Game::play produced is the only one of the table
\* with its code: reading the code back gives that outcome.
C13_CodesDistinct ==
    pc = "shown" =>
      /\ printed \in {"0", "1", "2", "3", "4", "5", "6", "7"}
      /\ Decode(printed) = outcome

C13_Witness ==
    /\ pc = "shown"
    /\ printed = "2"
    /\ outcome = PlayerWin(2)

\* C14 (GridSpec): after any insert_piece calls, failed ones included, every
\* column holds between 0 and `height` pieces, the occupied cells of a column
\* are exactly its rows below its height, and the board holds one piece per
\* successful call: none at first, and each call adds one exactly when it
\* returns Ok.
C14_ColumnsFillBottomUp ==
    /\ Pieces = 0
    /\ [](/\ Len(grid.values) = args.width
          /\ \A c \in 0..(args.width - 1) :
                /\ Len(grid.values[c + 1]) \in 0..args.height
                /\ \A r \in 0..args.height :
                      at(grid, <<c, r>>) # None <=> r < Len(grid.values[c + 1]))
    /\ [][Pieces' = Pieces + (IF ret'.ok THEN 1 ELSE 0)]_vars

C14_Witness ==
    /\ pc = "grid"
    /\ ret = Err(IllegalRow)
    /\ args.height = 2
    /\ Pieces = 3
    /\ Len(grid.values[call.val.column + 1]) = args.height

\* The number of cells player p owns.
PlacedBy(p) ==
    Cardinality({cell \in (0..(args.width - 1)) \X (0..(args.height - 1)) :
                   Occupied(cell[1], cell[2]) /\ Owner(cell[1], cell[2]) = p})

\* p holds at least win_length pieces and get_streak from (c, r) reaches
\* win_length in one of the four directions.
StreakWin(c, r, p) ==
    /\ PlacedBy(p) >= win_length
    /\ \E d \in {HORIZONTAL, VERTICAL, FORWARD_DIAGONAL, BACKWARD_DIAGONAL} :
          get_streak(grid, <<c, r>>, d) >= win_length

\* C15: a successful drop is classified as a win exactly when the mover holds
\* at least win_length pieces and get_streak from the landing cell reaches
\* win_length in one of the four directions; the win names the mover of that
\* ply, whose landing cell then lies on a run of win_length of the mover.
C15_WinExactlyOnStreak ==
    /\ (Dropped =>
          (result = Some(PlayerWin(Mover(idx)))
             <=> StreakWin(LandC, LandR, Mover(idx))))
    /\ (Dropped /\ result.kind = "Some" /\ result.val.kind = "PlayerWin" =>
          /\ result.val.player = Mover(idx)
          /\ Owner(LandC, LandR) = Mover(idx)
          /\ RunThrough(LandC, LandR, win_length))
    /\ (pc = "play" /\ idx > 0 =>
          /\ result = None
          /\ Occupied(moves[idx], 0)
          /\ ~StreakWin(moves[idx], Len(grid.values[moves[idx] + 1]) - 1,
                        Mover(idx - 1)))
    /\ (pc \in {"play", "done"} =>
          \A p \in DOMAIN moves_made : moves_made[p] = PlacedBy(p))

C15_Witness ==
    /\ Dropped
    /\ result = Some(PlayerWin(Mover(idx)))
    /\ win_length = 2
    /\ get_streak(grid, <<LandC, LandR>>, BACKWARD_DIAGONAL) = 2
    /\ get_streak(grid, <<LandC, LandR>>, HORIZONTAL) = 1
    /\ get_streak(grid, <<LandC, LandR>>, VERTICAL) = 1
    /\ get_streak(grid, <<LandC, LandR>>, FORWARD_DIAGONAL) = 1

\* The variant of the win and draw checks that does not consult the move
\* counters: the four streaks are looked at after every successful drop.
classify_unguarded(game, p) ==
    IF \E d \in {HORIZONTAL, VERTICAL, FORWARD_DIAGONAL, BACKWARD_DIAGONAL} :
          get_streak(game.grid, game.last_move.val, d) >= game.win_length
    THEN Some(PlayerWin(p))
    ELSE IF is_full(game.grid) THEN Some(Draw) ELSE None

\* C16: the move-count short-circuit never changes a result: after every
\* successful drop make_move returned what the variant without could_win
\* returns on the same game, so the two replays stay in step and end with the
\* same outcome.
C16_ShortCircuitIsSound ==
    /\ (Dropped => result = classify_unguarded(TheGame, Mover(idx)))
    /\ (pc = "play" /\ idx > 0 =>
          result = classify_unguarded(TheGame, Mover(idx - 1)))

C16_Witness ==
    /\ pc = "play"
    /\ idx = 2
    /\ win_length = 2
    /\ ~could_win(moves_made, win_length, Mover(idx - 1))
    /\ result = None

\* The ply about to be played cannot be dropped on the board as it is.
FailsNow ==
    \/ moves[idx + 1] >= args.width
    \/ Len(grid.values[moves[idx + 1] + 1]) >= args.height

\* C17: a make_move whose drop fails returns IllegalColumn or IllegalRow and
\* leaves the grid, every move counter and last_move as they were; a
\* successful one raises the mover's counter by exactly one, leaves the other
\* counters alone and sets last_move to the landing cell.
C17_FailedDropChangesNothing ==
    [][pc = "play" =>
         IF idx < Len(moves) /\ ~FailsNow
         THEN /\ result' \notin {Some(IllegalColumn), Some(IllegalRow)}
              /\ DOMAIN moves_made' = DOMAIN moves_made \cup {Mover(idx)}
              /\ moves_made'[Mover(idx)] =
                    IF Mover(idx) \in DOMAIN moves_made
                    THEN moves_made[Mover(idx)] + 1 ELSE 1
              /\ \A q \in DOMAIN moves_made \ {Mover(idx)} :
                    moves_made'[q] = moves_made[q]
              /\ last_move' =
                    Some(<<moves[idx + 1], Len(grid.values[moves[idx + 1] + 1])>>)
         ELSE /\ grid' = grid
              /\ moves_made' = moves_made
              /\ last_move' = last_move
              /\ (idx < Len(moves) =>
                    result' \in {Some(IllegalColumn), Some(IllegalRow)})]_vars

C17_Witness ==
    /\ AtPly
    /\ result = Some(IllegalRow)
    /\ idx = 3
    /\ DOMAIN moves_made = {1, 2}
    /\ moves_made[2] = 1
    /\ last_move = Some(<<moves[3], 0>>)

\* last_move is the cell (c, top of column c) and is fit to start a streak
\* of player p from.
LastMoveIsTop(c, p) ==
    /\ last_move # None
    /\ last_move.val[1] = c
    /\ last_move.val[1] < args.width
    /\ last_move.val[2] < args.height
    /\ last_move.val[2] = Len(grid.values[c + 1]) - 1
    /\ Occupied(last_move.val[1], last_move.val[2])
    /\ at(grid, last_move.val) = Some(p)
    /\ \A d \in {HORIZONTAL, VERTICAL, FORWARD_DIAGONAL, BACKWARD_DIAGONAL} :
          get_streak(grid, last_move.val, d) >= 1

\* C18: after every successful drop, which is when make_move goes on to the
\* win check, last_move is defined, within the board, occupied, owned by the
\* mover and the topmost piece of the column of the ply; so the `expect`
\* holds and get_streak starts from an occupied cell.
C18_LastMoveIsLanding ==
    /\ (Dropped => LastMoveIsTop(LandC, Mover(idx)))
    /\ (pc = "play" /\ idx > 0 => LastMoveIsTop(moves[idx], Mover(idx - 1)))
    /\ (pc = "play" /\ idx = 0 => last_move = None)

C18_Witness ==
    /\ pc = "play"
    /\ idx = 3
    /\ win_length = 2
    /\ could_win(moves_made, win_length, 1)
    /\ last_move = Some(<<2, 1>>)

\* C19 (StreakSpec): on a width x height board no sequence of drops gives a
\* cell a streak above max(width, height) in any of the four directions: for
\* every win_length that Game::new rejects (above both the width and the
\* height) every get_streak stays below win_length.
C19_RejectedGamesCannotBeWon ==
    pc = "streak" =>
      /\ ret <= Max(args.width, args.height)
      /\ \A z \in 0..MaxWin :
            ~Game_new(args.width, args.height, z).ok => ret < z

C19_Witness ==
    /\ pc = "streak"
    /\ args.width = 2
    /\ args.height = 2
    /\ call.val.direction = FORWARD_DIAGONAL
    /\ ret = 2
    /\ ~Game_new(args.width, args.height, 3).ok

\* C20 (FairSpec): for every move list play returns, with one Outcome that
\* stays as it is, after attempting at most Len(moves) drops; while the replay
\* goes on every ply so far was dropped, and at the return the board holds at
\* most one piece per ply up to and including the ply that returned.
C20_PlayTerminates ==
    /\ <>(pc = "done")
    /\ [](pc = "play" =>
            /\ idx <= Len(moves)
            /\ Pieces = idx
            /\ outcome = None)
    /\ [](pc = "done" =>
            /\ outcome # None
            /\ Pieces <= idx + 1
            /\ IF outcome = IllegalGame THEN idx = 0 /\ Pieces = 0
               ELSE IF outcome = Incomplete
                    THEN idx = Len(moves) /\ Pieces = Len(moves)
                    ELSE idx < Len(moves))
    /\ [][(pc = "done" \/ pc = "shown") =>
            (outcome' = outcome /\ grid' = grid /\ idx' = idx /\ pc' = "shown")
        ]_vars

C20_Witness ==
    /\ pc = "done"
    /\ Len(moves) = 3
    /\ idx = 1
    /\ Pieces = 2
    /\ outcome = Draw

\* The replay goes on, or has returned an outcome other than a win.
NoWinReported ==
    \/ pc = "play"
    \/ /\ pc \in {"done", "shown"}
       /\ outcome \in {Draw, Incomplete, IllegalRow, IllegalColumn}

\* C21: for a run length of at least 1, while the replay goes on and when
\* it returns Draw, Incomplete, IllegalRow or IllegalColumn, no player holds a
\* straight line of run length or more cells anywhere on the board.
C21_NoMissedWin ==
    (NoWinReported /\ win_length >= 1) =>
       \A z \in win_length..Max(Max(args.width, args.height), win_length) :
          ~RunAnywhere(z)

C21_Witness ==
    /\ pc = "play"
    /\ idx = 3
    /\ win_length = 3
    /\ Occupied(0, 0) /\ Occupied(1, 0) /\ Owner(0, 0) = Owner(1, 0)
    /\ RunAnywhere(2)

\* What a fresh game of the configuration returns for the first k moves.
PrefixOutcome(k) ==
    play(Game_new(args.width, args.height, args.win_length).val,
         SubSeq(moves, 1, k))

\* C22: for a fresh game of one configuration, a list that returns Draw,
\* IllegalRow, IllegalColumn or IllegalContinue returns the same with any
\* moves appended, and a list that returns PlayerWin returns IllegalContinue
\* with any non-empty list appended; only Incomplete leaves the outcome of the
\* longer list open.
C22_AppendStable ==
    (pc = "done" /\ outcome # IllegalGame) =>
       \A k \in 0..Len(moves) :
          LET o == PrefixOutcome(k) IN
          /\ o \in {Draw, IllegalRow, IllegalColumn, IllegalContinue}
                => outcome = o
          /\ (o.kind = "PlayerWin" /\ k < Len(moves))
                => outcome = IllegalContinue
          /\ k = Len(moves) => outcome = o
          /\ outcome # o => (o = Incomplete \/ o.kind = "PlayerWin")

C22_Witness ==
    /\ pc = "done"
    /\ outcome = IllegalContinue
    /\ Len(moves) = 4
    /\ PrefixOutcome(2) = Incomplete
    /\ PrefixOutcome(3).kind = "PlayerWin"

\* The direction the call moves along: d for `+`, the negation of d for `-`.
Heading == IF call.val.op = "add" THEN call.val.rhs ELSE Neg(call.val.rhs)

\* The claimed result of the call: the two errors, the column one first, and
\* otherwise the componentwise sum, as integers.
Claimed ==
    LET l == call.val.self
        e == Heading
    IN IF l[1] = 0 /\ e[1] < 0 THEN Err("already at first column")
       ELSE IF l[2] = 0 /\ e[2] < 0 THEN Err("already at first row")
       ELSE Ok(<<l[1] + e[1], l[2] + e[2]>>)

\* A coordinate of the result is not within one step of where it started.
Wrapped ==
    /\ ret.ok
    /\ \E i \in 1..2 :
          ret.val[i] > call.val.self[i] + 1 \/ ret.val[i] < call.val.self[i] - 1

\* C23 (LocSpec): location + d is an error exactly at column 0 with a
\* negative column step (checked first) or at row 0 with a negative row step,
\* and otherwise the componentwise sum; location - d is the same with the
\* steps negated; no result has a wrapped coordinate; and location - d
\* equals location + (-d).
C23_StepIsSumOrError ==
    call # None =>
       /\ ret.ok = Claimed.ok
       /\ IF ret.ok THEN ret.val = Claimed.val ELSE ret.err = Claimed.err
       /\ ~Wrapped
       /\ call.val.op = "sub" =>
             LET other == LocationAdd(call.val.self, Neg(call.val.rhs)) IN
             /\ other.ok = ret.ok
             /\ IF ret.ok THEN other.val = ret.val ELSE other.err = ret.err

\* The call that breaks it: one step up from the largest column.
C23_Witness ==
    /\ call # None
    /\ call.val.op = "add"
    /\ call.val.self = Location(WordMax, 0)
    /\ call.val.rhs = HORIZONTAL
    /\ ret.ok
    /\ ret.val = Location(0, 0)

\* C23, away from the largest value of the word: the claim as stated holds
\* for every call whose location has both coordinates below WordMax, and the
\* parts on the errors and on location - d = location + (-d) hold for all.
C23_BelowTop ==
    call # None =>
       /\ ret.ok = Claimed.ok
       /\ ~ret.ok => ret.err = Claimed.err
       /\ (ret.ok /\ call.val.self[1] < WordMax /\ call.val.self[2] < WordMax)
             => (ret.val = Claimed.val /\ ~Wrapped)
       /\ (ret.ok /\ ret.val # Claimed.val)
             => \E i \in 1..2 :
                   /\ call.val.self[i] = WordMax
                   /\ Heading[i] = 1
                   /\ ret.val[i] = 0
       /\ call.val.op = "sub" =>
             LET other == LocationAdd(call.val.self, Neg(call.val.rhs)) IN
             /\ other.ok = ret.ok
             /\ IF ret.ok THEN other.val = ret.val ELSE other.err = ret.err

====
